---- MODULE Spec2Model ----
(***************************************************************************)
(* A model of fvd-rs: the easing curves and the two transition-schedule    *)
(* evaluators (transitions.rs), the angle utility (math.rs), the segment   *)
(* integrators and the track assembler (track.rs) and the spline lookups   *)
(* (lib.rs).                                                               *)
(*                                                                         *)
(* Numbers.  An f64 is held in fixed point: the integer n stands for       *)
(* n / Scale, and Scale is chosen so that the integration step DT is one   *)
(* unit.  Products and quotients are rounded to the nearest unit.  The     *)
(* library functions exp, sinh, asinh are computed in the same fixed       *)
(* point by range reduction and a short series; they are exact at the      *)
(* arguments the endpoint claims use (exp(0) = 1, sinh(0) = 0).            *)
(***************************************************************************)
EXTENDS Integers, Sequences, FiniteSets, TLC

\* constants.rs: DT = 1.0 / 1000.0, so one fixed-point unit is DT.
Scale == 1000
DT == 1

Half == Scale \div 2

Abs(x) == IF x < 0 THEN -x ELSE x

Min(a, b) == IF a <= b THEN a ELSE b

Max(a, b) == IF a >= b THEN a ELSE b

\* f64::clamp
Clamp(x, lo, hi) == IF x < lo THEN lo ELSE IF x > hi THEN hi ELSE x

\* a * b on f64, rounded to the nearest unit (the split keeps the
\* intermediate product inside the machine integers TLC computes with).
FMul(a, b) == (a \div Scale) * b + ((a % Scale) * b + Half) \div Scale

\* a / b on f64 for b # 0, rounded to the nearest unit.
FDiv(a, b) ==
  IF b > 0 THEN (a * Scale + b \div 2) \div b
  ELSE ((-a) * Scale + (-b) \div 2) \div (-b)

\* x.powi(n) / x.powf(n) for a whole exponent n >= 1: repeated product.
RECURSIVE IPow(_, _)
IPow(x, n) == IF n <= 1 THEN x ELSE FMul(IPow(x, n - 1), x)

\* 2.0_f64.powf(h) for a whole h >= 0, as a plain integer.
RECURSIVE Exp2(_)
Exp2(h) == IF h <= 0 THEN 1 ELSE 2 * Exp2(h - 1)

\* f64::exp: e^x = (e^(x/16))^16, e^r by its series to the fourth power.
ExpSeries(r) ==
  Scale + r + FMul(r, r) \div 2 + IPow(r, 3) \div 6 + IPow(r, 4) \div 24

RECURSIVE SquareTimes(_, _)
SquareTimes(x, n) == IF n = 0 THEN x ELSE SquareTimes(FMul(x, x), n - 1)

\* Below e^-16 the result is under the fixed-point resolution: 0.
Exp(x) ==
  IF x < -16 * Scale THEN 0 ELSE SquareTimes(ExpSeries((x + 8) \div 16), 4)

\* f64::sinh: its series near 0 (so that sinh(0) = 0 and the function is
\* strictly increasing there), (e^x - e^-x) / 2 elsewhere.
Sinh(x) ==
  IF Abs(x) <= Scale
    THEN x + IPow(x, 3) \div 6 + IPow(x, 5) \div 120 + IPow(x, 7) \div 5040
  ELSE (Exp(x) - Exp(-x)) \div 2

\* f64::asinh: the inverse of Sinh, found by bisection on [-AsinhMax, AsinhMax].
AsinhMax == 8 * Scale

RECURSIVE AsinhSearch(_, _, _)
AsinhSearch(y, lo, hi) ==
  IF hi - lo <= 1 THEN lo
  ELSE LET mid == (lo + hi) \div 2
       IN  IF Sinh(mid) <= y THEN AsinhSearch(y, mid, hi)
           ELSE AsinhSearch(y, lo, mid)

Asinh(y) == AsinhSearch(y, -AsinhMax, AsinhMax)

(***************************************************************************)
(* transitions.rs: TransitionCurve                                         *)
(***************************************************************************)
Curves == {"Linear", "Quadratic", "Cubic", "Plateau", "QuarticBump"}

\* TransitionCurve::eval, one operator per match arm; t is already clamped.
EvalCubic(t) ==
  IF t < Half THEN FMul(FMul(FMul(4 * Scale, t), t), t)
  ELSE Scale - FDiv(IPow(-2 * t + 2 * Scale, 3), 2 * Scale)

EvalQuadratic(t) ==
  IF t < Half THEN FMul(FMul(2 * Scale, t), t)
  ELSE Scale - FDiv(IPow(-2 * t + 2 * Scale, 2), 2 * Scale)

\* The Plateau arm without its .abs(): the curve no longer falls back to 0.
EvalPlateauNoAbs(t) ==
  Scale - Exp(FMul(-15 * Scale, IPow(Scale - (2 * t - Scale), 3)))

EvalPlateau(t) ==
  Scale - Exp(FMul(-15 * Scale, IPow(Scale - Abs(2 * t - Scale), 3)))

EvalQuarticBump(t) ==
  FMul(FMul(t, t), 16 * Scale + FMul(t, -32 * Scale + FMul(t, 16 * Scale)))

Eval(curve, t0) ==
  LET t == Clamp(t0, 0, Scale)
  IN  CASE curve = "Linear" -> t
        [] curve = "Cubic" -> EvalCubic(t)
        [] curve = "Quadratic" -> EvalQuadratic(t)
        [] curve = "Plateau" -> EvalPlateau(t)
        [] curve = "QuarticBump" -> EvalQuarticBump(t)

\* fn timewarp_center; the exponent 2^(|center|/2) is whole for the centers
\* the model draws (multiples of 2.0).
TimewarpCenter(t, center) ==
  IF Abs(center) < Scale \div 100 THEN t
  ELSE IF center > 0 THEN IPow(t, Exp2(center \div (2 * Scale)))
  ELSE Scale - IPow(Scale - t, Exp2((-center) \div (2 * Scale)))

\* fn timewarp_tension
TimewarpTension(t, tension) ==
  IF Abs(tension) < Scale \div 100 THEN t
  ELSE IF tension > 0
    THEN FMul(Half, FDiv(Sinh(FMul(2 * tension, t - Half)), Sinh(tension)) + Scale)
  ELSE FMul(Half, FDiv(Asinh(FMul(2 * Sinh(tension), t - Half)), tension) + Scale)

\* fn timewarp
Timewarp(t, center, tension) == TimewarpTension(TimewarpCenter(t, center), tension)

\* TransitionCurve::eval_timewarp
EvalTimewarp(curve, t, center, tension) == Eval(curve, Timewarp(t, center, tension))

(***************************************************************************)
(* transitions.rs: Transitions, the linear evaluator.  A Transition is a   *)
(* record [curve, value, length, center, tension]; an Option<Forces> is a  *)
(* record whose kind is "Some" or "None", or "Panic" when the call does    *)
(* not return.                                                             *)
(***************************************************************************)
SomeF(v) == [kind |-> "Some", v |-> v]

NoneF == [kind |-> "None", v |-> 0]

PanicF == [kind |-> "Panic", v |-> 0]

SomeForces(ve, la, ro) == [kind |-> "Some", vert |-> ve, lat |-> la, roll |-> ro]

NoForces == [kind |-> "None", vert |-> 0, lat |-> 0, roll |-> 0]

PanicForces == [kind |-> "Panic", vert |-> 0, lat |-> 0, roll |-> 0]

\* iter().map(|t| t.length).sum::<f64>()
RECURSIVE SumLengths(_)
SumLengths(ts) == IF ts = <<>> THEN 0 ELSE ts[1].length + SumLengths(Tail(ts))

\* Transitions::length with only the vertical channel counted.
LengthVertOnly(tr) == SumLengths(tr.vert)

\* Transitions::length
Length(tr) == Min(Min(SumLengths(tr.vert), SumLengths(tr.lat)), SumLengths(tr.roll))

\* The for loop of Transitions::evaluate_single from its i-th transition on,
\* without the break: the transitions after the containing one are added too.
RECURSIVE EvaluateSingleLoopNoBreak(_, _, _, _, _)
EvaluateSingleLoopNoBreak(ts, i, time, time_accum, value) ==
  IF i > Len(ts) THEN value
  ELSE LET transition == ts[i]
       IN  IF time_accum <= time /\ time <= time_accum + transition.length
           THEN EvaluateSingleLoopNoBreak(ts, i + 1, time,
                  time_accum + transition.length,
                  value + FMul(EvalTimewarp(transition.curve,
                                 FDiv(time - time_accum, transition.length),
                                 transition.center, transition.tension),
                               transition.value))
           ELSE EvaluateSingleLoopNoBreak(ts, i + 1, time,
                  time_accum + transition.length,
                  value + FMul(transition.value, Eval(transition.curve, Scale)))

\* The for loop of Transitions::evaluate_single from its i-th transition on.
RECURSIVE EvaluateSingleLoop(_, _, _, _, _)
EvaluateSingleLoop(ts, i, time, time_accum, value) ==
  IF i > Len(ts) THEN value
  ELSE LET transition == ts[i]
       IN  IF time_accum <= time /\ time <= time_accum + transition.length
           THEN value + FMul(EvalTimewarp(transition.curve,
                               FDiv(time - time_accum, transition.length),
                               transition.center, transition.tension),
                             transition.value)
           ELSE EvaluateSingleLoop(ts, i + 1, time,
                  time_accum + transition.length,
                  value + FMul(transition.value, Eval(transition.curve, Scale)))

\* Transitions::evaluate_single
EvaluateSingle(ts, time) ==
  IF time < 0 THEN NoneF ELSE SomeF(EvaluateSingleLoop(ts, 1, time, 0, 0))

\* Transitions::evaluate
Evaluate(tr, time) ==
  IF time < 0 THEN NoForces
  ELSE LET ve == EvaluateSingle(tr.vert, time)
           la == EvaluateSingle(tr.lat, time)
           ro == EvaluateSingle(tr.roll, time)
       IN  IF ve.kind = "None" \/ la.kind = "None" \/ ro.kind = "None"
           THEN NoForces
           ELSE SomeForces(ve.v, la.v, ro.v)

(***************************************************************************)
(* transitions.rs: FastTransitions.  An AbsoluteTransition adds            *)
(* start_value and start to the fields of a Transition.                    *)
(***************************************************************************)
\* One of the three for loops of FastTransitions::new.
RECURSIVE BuildAbsolute(_, _, _, _, _)
BuildAbsolute(ts, i, time_accum, value_accum, acc) ==
  IF i > Len(ts) THEN acc
  ELSE LET transition == ts[i]
       IN  BuildAbsolute(ts, i + 1,
             time_accum + transition.length,
             value_accum + FMul(transition.value, Eval(transition.curve, Scale)),
             Append(acc, [curve |-> transition.curve,
                          value |-> transition.value,
                          start_value |-> value_accum,
                          start |-> time_accum,
                          length |-> transition.length,
                          center |-> transition.center,
                          tension |-> transition.tension]))

\* FastTransitions::new
FastNew(tr) ==
  [vert |-> BuildAbsolute(tr.vert, 1, 0, 0, <<>>),
   lat |-> BuildAbsolute(tr.lat, 1, 0, 0, <<>>),
   roll |-> BuildAbsolute(tr.roll, 1, 0, 0, <<>>),
   length |-> Length(tr)]

\* The while loop of find_range_index; low, mid, high are 0-based.
RECURSIVE FindRangeLoop(_, _, _, _)
FindRangeLoop(arr, target, low, high) ==
  IF low < high
  THEN LET mid == (low + high) \div 2
       IN  IF arr[mid + 1].start <= target
           THEN FindRangeLoop(arr, target, mid + 1, high)
           ELSE FindRangeLoop(arr, target, low, mid)
  ELSE low

\* find_range_index, for a non-empty arr (0-based result).
FindRangeIndex(arr, target) ==
  Clamp(FindRangeLoop(arr, target, 0, Len(arr)), 0, Len(arr) - 1)

\* FastTransitions::evaluate_single.  On an empty list arr.len() - 1
\* underflows (a panic in a checked build; in an unchecked one the index 0
\* it leaves is out of bounds, a panic too).
FastEvaluateSingle(fast, transitions, time) ==
  IF time < 0 \/ time >= fast.length THEN NoneF
  ELSE IF Len(transitions) = 0 THEN PanicF
  ELSE LET idx == FindRangeIndex(transitions, time)
           transition == transitions[idx + 1]
           time_relative == time - transition.start
       IN  SomeF(transition.start_value
                 + FMul(transition.value,
                        EvalTimewarp(transition.curve,
                                     FDiv(time_relative, transition.length),
                                     transition.center, transition.tension)))

\* FastTransitions::evaluate
FastEvaluate(fast, time) ==
  IF time < 0 \/ time >= fast.length THEN NoForces
  ELSE LET ve == FastEvaluateSingle(fast, fast.vert, time)
           la == FastEvaluateSingle(fast, fast.lat, time)
           ro == FastEvaluateSingle(fast, fast.roll, time)
       IN  IF ve.kind = "Panic" THEN PanicForces
           ELSE IF ve.kind = "None" THEN NoForces
           ELSE IF la.kind = "Panic" THEN PanicForces
           ELSE IF la.kind = "None" THEN NoForces
           ELSE IF ro.kind = "Panic" THEN PanicForces
           ELSE IF ro.kind = "None" THEN NoForces
           ELSE SomeForces(ve.v, la.v, ro.v)

(***************************************************************************)
(* math.rs: deg_diff.  Angles are degrees in fixed point.                  *)
(***************************************************************************)
\* while diff < -180.0 { diff += 360.0 }
RECURSIVE WrapUp(_)
WrapUp(diff) == IF diff < -180 * Scale THEN WrapUp(diff + 360 * Scale) ELSE diff

\* while diff > 180.0 { diff -= 360.0 }
RECURSIVE WrapDown(_)
WrapDown(diff) == IF diff > 180 * Scale THEN WrapDown(diff - 360 * Scale) ELSE diff

\* deg_diff with its second loop left out.
DegDiffNoWrapDown(a, b) == WrapUp(b - a)

DegDiff(a, b) == WrapDown(WrapUp(b - a))

(***************************************************************************)
(* f64 values that may be infinite or NaN.  The integrators and the spline *)
(* lookups divide by speeds and by angle differences that can be zero, so  *)
(* their arithmetic is done on fixed-point numbers extended by +inf, -inf  *)
(* and NaN, with the IEEE-754 rules for them.  The sign of a zero is not   *)
(* kept: a zero divisor counts as +0.                                      *)
(***************************************************************************)
PInf == 1000000000

NInf == -1000000000

NaN == 1000000001

IsNaN(x) == x = NaN

IsInf(x) == x = PInf \/ x = NInf

XNeg(a) ==
  IF a = NaN THEN NaN ELSE IF a = PInf THEN NInf ELSE IF a = NInf THEN PInf ELSE -a

XAbs(a) == IF a = NaN THEN NaN ELSE IF IsInf(a) THEN PInf ELSE Abs(a)

XAdd(a, b) ==
  IF a = NaN \/ b = NaN THEN NaN
  ELSE IF IsInf(a) THEN (IF IsInf(b) /\ a # b THEN NaN ELSE a)
  ELSE IF IsInf(b) THEN b
  ELSE a + b

XSub(a, b) == XAdd(a, XNeg(b))

XMul(a, b) ==
  IF a = NaN \/ b = NaN THEN NaN
  ELSE IF IsInf(a) \/ IsInf(b)
    THEN (IF a = 0 \/ b = 0 THEN NaN
          ELSE IF (a > 0) = (b > 0) THEN PInf ELSE NInf)
  ELSE FMul(a, b)

XDiv(a, b) ==
  IF a = NaN \/ b = NaN THEN NaN
  ELSE IF IsInf(a)
    THEN (IF IsInf(b) THEN NaN
          ELSE IF (a > 0) = (b >= 0) THEN PInf ELSE NInf)
  ELSE IF IsInf(b) THEN 0
  ELSE IF b = 0
    THEN (IF a = 0 THEN NaN ELSE IF a > 0 THEN PInf ELSE NInf)
  ELSE FDiv(a, b)

\* a < b, a <= b, a > b on f64: false when either side is NaN.
XLt(a, b) == a # NaN /\ b # NaN /\ a < b

XLe(a, b) == a # NaN /\ b # NaN /\ a <= b

XGt(a, b) == a # NaN /\ b # NaN /\ a > b

\* The largest r with r * r <= n, for n >= 0.
RECURSIVE ISqrtSearch(_, _, _)
ISqrtSearch(n, lo, hi) ==
  IF hi - lo <= 1 THEN lo
  ELSE LET mid == (lo + hi) \div 2
       IN  IF mid * mid <= n THEN ISqrtSearch(n, mid, hi)
           ELSE ISqrtSearch(n, lo, mid)

ISqrt(n) == ISqrtSearch(n, 0, 46341)

\* f64::sqrt
XSqrt(a) ==
  IF a = NaN \/ a = NInf THEN NaN
  ELSE IF a = PInf THEN PInf
  ELSE IF a < 0 THEN NaN
  ELSE ISqrt(a * Scale)

\* f64::sin and f64::cos: the argument is brought into (-pi, pi], folded
\* into [-pi/2, pi/2], and the series is summed there; sin and cos of an
\* infinity are NaN.
Pi == 3142

HalfPi == 1571

SinSeries(x) == x - IPow(x, 3) \div 6 + IPow(x, 5) \div 120 - IPow(x, 7) \div 5040

CosSeries(x) ==
  Scale - IPow(x, 2) \div 2 + IPow(x, 4) \div 24 - IPow(x, 6) \div 720

WrapPi(x) == ((x + Pi - 1) % (2 * Pi)) - Pi + 1

XSin(a) ==
  IF a = NaN \/ IsInf(a) THEN NaN
  ELSE LET x == WrapPi(a)
       IN  IF x > HalfPi THEN SinSeries(Pi - x)
           ELSE IF x < -HalfPi THEN SinSeries(-Pi - x)
           ELSE SinSeries(x)

XCos(a) ==
  IF a = NaN \/ IsInf(a) THEN NaN
  ELSE LET x == WrapPi(a)
       IN  IF x > HalfPi THEN -CosSeries(Pi - x)
           ELSE IF x < -HalfPi THEN -CosSeries(-Pi - x)
           ELSE CosSeries(x)

\* f64::atan2 for finite arguments: the angle in [0, pi/2] of (|x|, |y|) by
\* bisection, then placed in the quadrant of (x, y).
RECURSIVE AtanSearch(_, _, _, _)
AtanSearch(y, x, lo, hi) ==
  IF hi - lo <= 1 THEN lo
  ELSE LET mid == (lo + hi) \div 2
       IN  IF FMul(x, SinSeries(mid)) <= FMul(y, CosSeries(mid))
           THEN AtanSearch(y, x, mid, hi)
           ELSE AtanSearch(y, x, lo, mid)

XAtan2(y, x) ==
  IF y = NaN \/ x = NaN \/ IsInf(y) \/ IsInf(x) THEN NaN
  ELSE IF y = 0 THEN (IF x >= 0 THEN 0 ELSE Pi)
  ELSE IF x = 0 THEN (IF y > 0 THEN HalfPi ELSE -HalfPi)
  ELSE LET th == AtanSearch(Abs(y), Abs(x), 0, HalfPi + 1)
           an == IF x > 0 THEN th ELSE Pi - th
       IN  IF y > 0 THEN an ELSE -an

\* f64::to_radians, f64::to_degrees
ToRadians(d) == XDiv(XMul(d, Pi), 180 * Scale)

ToDegrees(r) == XDiv(XMul(r, 180 * Scale), Pi)

(***************************************************************************)
(* glam: DVec3 is a triple <<x, y, z>>, DQuat a record [x, y, z, w].       *)
(***************************************************************************)
VecZero == <<0, 0, 0>>

VecY == <<0, Scale, 0>>

VecZ == <<0, 0, Scale>>

VecNegX == <<-Scale, 0, 0>>

VecNegY == <<0, -Scale, 0>>

VAdd(a, b) == <<XAdd(a[1], b[1]), XAdd(a[2], b[2]), XAdd(a[3], b[3])>>

VSub(a, b) == <<XSub(a[1], b[1]), XSub(a[2], b[2]), XSub(a[3], b[3])>>

VScale(a, k) == <<XMul(a[1], k), XMul(a[2], k), XMul(a[3], k)>>

VDot(a, b) == XAdd(XAdd(XMul(a[1], b[1]), XMul(a[2], b[2])), XMul(a[3], b[3]))

VCross(a, b) ==
  << XSub(XMul(a[2], b[3]), XMul(b[2], a[3])),
     XSub(XMul(a[3], b[1]), XMul(b[3], a[1])),
     XSub(XMul(a[1], b[2]), XMul(b[1], a[2])) >>

\* DVec3::length.  The squares are summed at full precision before the
\* root is taken, so that the length of a short step is not lost.
VLength(a) ==
  IF a[1] = NaN \/ a[2] = NaN \/ a[3] = NaN THEN NaN
  ELSE IF IsInf(a[1]) \/ IsInf(a[2]) \/ IsInf(a[3]) THEN PInf
  ELSE ISqrt(a[1] * a[1] + a[2] * a[2] + a[3] * a[3])

QuatIdentity == [x |-> 0, y |-> 0, z |-> 0, w |-> Scale]

\* DQuat::from_axis_angle
FromAxisAngle(axis, angle) ==
  LET h == XMul(angle, Half)
      sn == XSin(h)
      cs == XCos(h)
  IN  [x |-> XMul(axis[1], sn), y |-> XMul(axis[2], sn),
       z |-> XMul(axis[3], sn), w |-> cs]

\* DQuat * DQuat
QMul(a, b) ==
  [x |-> XSub(XAdd(XAdd(XMul(a.w, b.x), XMul(a.x, b.w)), XMul(a.y, b.z)), XMul(a.z, b.y)),
   y |-> XAdd(XAdd(XSub(XMul(a.w, b.y), XMul(a.x, b.z)), XMul(a.y, b.w)), XMul(a.z, b.x)),
   z |-> XAdd(XSub(XAdd(XMul(a.w, b.z), XMul(a.x, b.y)), XMul(a.y, b.x)), XMul(a.z, b.w)),
   w |-> XSub(XSub(XSub(XMul(a.w, b.w), XMul(a.x, b.x)), XMul(a.y, b.y)), XMul(a.z, b.z))]

\* DQuat * DVec3
QRot(q, v) ==
  LET b == <<q.x, q.y, q.z>>
      b2 == VDot(b, b)
  IN  VAdd(VAdd(VScale(v, XSub(XMul(q.w, q.w), b2)),
                VScale(b, XMul(VDot(v, b), 2 * Scale))),
           VScale(VCross(b, v), XMul(q.w, 2 * Scale)))

(***************************************************************************)
(* lib.rs and math.rs: track points, splines and the forces along them.    *)
(***************************************************************************)
G == 9807

TrackPoint(pos, rot, velocity, t) ==
  [pos |-> pos, rot |-> rot, velocity |-> velocity, time |-> t]

\* TrackPoint::default()
DefaultPoint == TrackPoint(VecZero, QuatIdentity, 0, 0)

ForcesOf(ve, la, ro) == [vert |-> ve, lat |-> la, roll |-> ro]

XGe(a, b) == XLe(b, a)

\* math::euler from the rotated axes: yaw, pitch and roll in degrees
EulerOfAxes(dir, up_dir, right_dir) ==
  [yaw |-> ToDegrees(XAtan2(XNeg(dir[1]), XNeg(dir[3]))),
   pitch |-> ToDegrees(XAtan2(dir[2],
                              XSqrt(XAdd(XMul(dir[1], dir[1]), XMul(dir[3], dir[3]))))),
   roll |-> ToDegrees(XAtan2(XNeg(right_dir[2]), up_dir[2]))]

\* math::euler
Euler(p) == EulerOfAxes(QRot(p.rot, VecZ), QRot(p.rot, VecY), QRot(p.rot, VecNegX))

\* math::deg_diff on f64: neither loop condition holds for a NaN difference.
DegDiffF64(a, b) == IF a = NaN \/ b = NaN THEN NaN ELSE DegDiff(a, b)

\* The for loop of eval_closest with the test total_dist > distance.
RECURSIVE EvalClosestLoopStrict(_, _, _, _)
EvalClosestLoopStrict(points, i, total_dist, distance) ==
  IF i > Len(points) THEN [kind |-> "None", last |-> 0, cur |-> 0]
  ELSE LET dist == VLength(VSub(points[i].pos, points[i - 1].pos))
           td == XAdd(total_dist, dist)
       IN  IF XGt(td, distance) THEN [kind |-> "Some", last |-> i - 1, cur |-> i]
           ELSE EvalClosestLoopStrict(points, i + 1, td, distance)

\* The for loop of TrackSpline::eval_closest from index i (1-based) on.
RECURSIVE EvalClosestLoop(_, _, _, _)
EvalClosestLoop(points, i, total_dist, distance) ==
  IF i > Len(points) THEN [kind |-> "None", last |-> 0, cur |-> 0]
  ELSE LET dist == VLength(VSub(points[i].pos, points[i - 1].pos))
           td == XAdd(total_dist, dist)
       IN  IF XGe(td, distance) THEN [kind |-> "Some", last |-> i - 1, cur |-> i]
           ELSE EvalClosestLoop(points, i + 1, td, distance)

\* TrackSpline::eval_closest: the indices of the bracketing pair, or None.
EvalClosest(points, distance) == EvalClosestLoop(points, 2, 0, distance)

\* forces: pitch_from_last and yaw_from_last, from the two euler triples
PitchFromLast(le, e) == ToRadians(DegDiffF64(le.pitch, e.pitch))

YawFromLast(le, e) == ToRadians(DegDiffF64(le.yaw, e.yaw))

\* forces: normal_d_angle
NormalDAngle(le, e) ==
  XSub(XMul(PitchFromLast(le, e), XCos(ToRadians(XNeg(e.roll)))),
       XMul(XMul(XCos(ToRadians(XAbs(e.pitch))), XNeg(YawFromLast(le, e))),
            XSin(ToRadians(XNeg(e.roll)))))

\* forces: lateral_d_angle
LateralDAngle(le, e) ==
  XSub(XMul(XNeg(PitchFromLast(le, e)), XSin(ToRadians(e.roll))),
       XMul(XMul(XCos(ToRadians(XAbs(e.pitch))), YawFromLast(le, e)),
            XCos(ToRadians(e.roll))))

\* forces: v * v / (delta_dist / d_angle) / G
Centripetal(velocity, delta_dist, d_angle) ==
  XDiv(XDiv(XMul(velocity, velocity), XDiv(delta_dist, d_angle)), G)

\* forces: force_vec
ForceVec(up, right, velocity, delta_dist, normal_d_angle, lateral_d_angle) ==
  VAdd(VAdd(VecY, VScale(up, Centripetal(velocity, delta_dist, normal_d_angle))),
       VScale(right, Centripetal(velocity, delta_dist, lateral_d_angle)))

\* forces: the returned Forces
ForcesOfVec(force_vec, up, right) ==
  SomeForces(VDot(force_vec, up), VDot(force_vec, right), 0)

\* forces: from the axes of point and the euler triples of the pair
ForcesFromEuler(last_point, point, up, right, le, e) ==
  ForcesOfVec(ForceVec(up, right, point.velocity,
                       VLength(VSub(point.pos, last_point.pos)),
                       NormalDAngle(le, e), LateralDAngle(le, e)),
              up, right)

\* forces: for the pair eval_closest has found
ForcesBetween(last_point, point) ==
  ForcesFromEuler(last_point, point,
                  QRot(point.rot, VecY), QRot(point.rot, VecNegX),
                  Euler(last_point), Euler(point))

\* forces: on the result pr of eval_closest
ForcesOfPair(points, pr) ==
  IF pr.kind = "None" THEN NoForces
  ELSE ForcesBetween(points[pr.last], points[pr.cur])

\* TrackSpline::forces
SplineForces(points, at) == ForcesOfPair(points, EvalClosest(points, at))

\* TrackSpline::total_distance: the fold over windows(2), from index i on.
RECURSIVE TotalDistanceFold(_, _, _)
TotalDistanceFold(points, i, acc) ==
  IF i > Len(points) THEN acc
  ELSE TotalDistanceFold(points, i + 1,
                         XAdd(acc, VLength(VSub(points[i].pos, points[i - 1].pos))))

TotalDistance(points) == TotalDistanceFold(points, 2, 0)

(***************************************************************************)
(* track.rs: sections, friction and the assembly of a track.               *)
(***************************************************************************)
Straight(length, fixed_speed) ==
  [type |-> "straight", length |-> length, fixed_speed |-> fixed_speed,
   transitions |-> [vert |-> <<>>, lat |-> <<>>, roll |-> <<>>],
   radius |-> 0, direction |-> 0, angle |-> 0]

Force(fixed_speed, transitions) ==
  [type |-> "force", length |-> 0, fixed_speed |-> fixed_speed,
   transitions |-> transitions, radius |-> 0, direction |-> 0, angle |-> 0]

Curved(fixed_speed, radius, direction, angle) ==
  [type |-> "curved", length |-> 0, fixed_speed |-> fixed_speed,
   transitions |-> [vert |-> <<>>, lat |-> <<>>, roll |-> <<>>],
   radius |-> radius, direction |-> direction, angle |-> angle]

TrackConfig(parameter, resistance, heartline_height) ==
  [parameter |-> parameter, resistance |-> resistance,
   heartline_height |-> heartline_height]

\* The position the friction is measured at: below the point by 0.9 of the
\* heartline height, in the point's frame.
TrackPosFriction(point, heartline_height) ==
  VAdd(point.pos,
       QRot(point.rot, VScale(VScale(VecNegY, heartline_height), 9 * (Scale \div 10))))

\* track_friction: the energy left after resistance, climb and rolling
\* friction, between the two friction positions.
EnergyLeft(tpf, ltpf, lv, parameter, resistance, dt) ==
  XSub(XSub(XMul(XMul(Half, lv), lv),
            XMul(XMul(XMul(XMul(lv, lv), lv), dt), resistance)),
       XMul(XAdd(XSub(tpf[2], ltpf[2]),
                 XMul(VLength(VSub(tpf, ltpf)), parameter)),
            G))

\* track_friction: the speed for the energy left
SpeedOfEnergy(left) == IF XLe(left, 0) THEN 0 ELSE XSqrt(XMul(2 * Scale, left))

\* track_friction
TrackFriction(parameter, resistance, heartline_height, last_point, point, dt) ==
  SpeedOfEnergy(EnergyLeft(TrackPosFriction(point, heartline_height),
                           TrackPosFriction(last_point, heartline_height),
                           last_point.velocity, parameter, resistance, dt))

\* make_splines: the anchor with orientation and time reset.
InitialPoint(anchor) == [anchor EXCEPT !.rot = QuatIdentity, !.time = 0]

\* make_splines: the forces the first section starts from.
BaselineForces == ForcesOf(Scale, 0, 0)

\* make_splines with every section started from the initial point.
NextStartAlwaysInitial(ss, initial_point) == [kind |-> "Some", v |-> initial_point]

\* make_splines: the point the next section starts from, None when the
\* previous spline has no last point.
NextStart(ss, initial_point) ==
  IF ss = <<>> THEN [kind |-> "Some", v |-> initial_point]
  ELSE IF ss[Len(ss)] = <<>> THEN [kind |-> "None", v |-> initial_point]
  ELSE [kind |-> "Some", v |-> ss[Len(ss)][Len(ss[Len(ss)])]]

\* flat_map(|s| s.points.iter())
RECURSIVE Flatten(_)
Flatten(ss) == IF ss = <<>> THEN <<>> ELSE ss[1] \o Flatten(Tail(ss))

\* step_by(4): elements 0, 4, 8, ... of a sequence
StepBy4(pts) == [k \in 1..((Len(pts) + 3) \div 4) |-> pts[4 * (k - 1) + 1]]

\* The retained points with the decimation restarted in every spline.
RECURSIVE DecimatePerSpline(_)
DecimatePerSpline(ss) ==
  IF ss = <<>> THEN <<>> ELSE StepBy4(ss[1]) \o DecimatePerSpline(Tail(ss))

\* get_spline: the retained points
Decimate(ss) == StepBy4(Flatten(ss))

\* get_spline: the for loop over the splines from index i on.
RECURSIVE SectionStartLoop(_, _, _, _)
SectionStartLoop(ss, i, len_accum, section_start) ==
  IF i > Len(ss) THEN section_start
  ELSE SectionStartLoop(ss, i + 1, XAdd(len_accum, TotalDistance(ss[i])),
                        Append(section_start, len_accum))

SectionStart(ss) == SectionStartLoop(ss, 1, 0, <<>>)

(***************************************************************************)
(* Exact f64 arithmetic for the Straight loop, whose point count depends   *)
(* on how the sums p + 0.01 round.  A non-negative f64 below 256 is the    *)
(* whole number of units of 2^-64 it equals, written as three limbs in     *)
(* base 2^24, lowest first.  An operation computes the exact result and    *)
(* rounds it to 53 significant bits, ties to even, as IEEE-754 does.       *)
(***************************************************************************)
LimbBase == Exp2(24)

BigZero == <<0, 0, 0>>

\* The whole number n < 256 as an f64.
BigOfInt(n) == <<0, 0, n * Exp2(16)>>

\* Exact a + b.
BAdd(a, b) ==
  << (a[1] + b[1]) % LimbBase,
     (a[2] + b[2] + (a[1] + b[1]) \div LimbBase) % LimbBase,
     a[3] + b[3] + (a[2] + b[2] + (a[1] + b[1]) \div LimbBase) \div LimbBase >>

\* a < b
BLt(a, b) ==
  \/ a[3] < b[3]
  \/ a[3] = b[3] /\ a[2] < b[2]
  \/ a[3] = b[3] /\ a[2] = b[2] /\ a[1] < b[1]

BLe(a, b) == ~BLt(b, a)

\* The number of bits of n.
RECURSIVE IntBits(_)
IntBits(n) == IF n = 0 THEN 0 ELSE 1 + IntBits(n \div 2)

BitLen(a) ==
  IF a[3] > 0 THEN 48 + IntBits(a[3])
  ELSE IF a[2] > 0 THEN 24 + IntBits(a[2])
  ELSE IntBits(a[1])

\* a with its lowest d < 24 bits rounded away, ties to even; sticky says
\* that the exact value lies above a.
RoundBits(a, d, sticky) ==
  IF (a[1] % Exp2(d)) * 2 > Exp2(d)
     \/ ( (a[1] % Exp2(d)) * 2 = Exp2(d)
          /\ (sticky \/ (a[1] \div Exp2(d)) % 2 = 1) )
  THEN BAdd(<<a[1] - (a[1] % Exp2(d)), a[2], a[3]>>, <<Exp2(d), 0, 0>>)
  ELSE <<a[1] - (a[1] % Exp2(d)), a[2], a[3]>>

\* a rounded to 53 significant bits.
Round53(a, sticky) ==
  IF BitLen(a) <= 53 THEN a ELSE RoundBits(a, BitLen(a) - 53, sticky)

\* Exact a / v for a whole v in 1 .. 100: the quotient in units, and whether
\* a remainder is left.
BDivSmall(a, v) ==
  [q |-> << (((((a[3] % v) * LimbBase + a[2]) % v) * LimbBase) + a[1]) \div v,
            ((a[3] % v) * LimbBase + a[2]) \div v,
            a[3] \div v >>,
   sticky |-> (((((a[3] % v) * LimbBase + a[2]) % v) * LimbBase) + a[1]) % v # 0]

\* a + b on f64
F64Add(a, b) == Round53(BAdd(a, b), FALSE)

\* The rounding of an exact quotient.
RoundQuotient(d) == Round53(d.q, d.sticky)

\* a / v on f64, v a whole number
F64Div(a, v) == RoundQuotient(BDivSmall(a, v))

\* The f64 a decimal literal equal to n / d denotes.
F64Ratio(n, d) == F64Div(BigOfInt(n), d)

(***************************************************************************)
(* State.  Each specification below drives one part of the library and     *)
(* leaves the variables of the other parts at their initial values.        *)
(***************************************************************************)
VARIABLES
  curve, tIn, out, evaluated,     \* one call of TransitionCurve::eval
  angA, angB, diff, diffDone,     \* one call of deg_diff
  sched,                          \* a Transitions value
  time,                           \* the time both evaluators are asked for
  lin,                            \* what Transitions::evaluate returned
  fast,                           \* the FastTransitions built from sched
  fastOut,                        \* what FastTransitions::evaluate returned
  tpc,                            \* "start", "linear", "built", "done"
  track,                          \* the Track get_spline is called on
  splines,                        \* make_splines: the splines pushed so far
  forces,                         \* make_splines: the current baseline forces
  loc,                            \* make_spline: its arguments and locals
  spline,                         \* make_spline: the spline being filled
  mpc,                            \* where get_spline is: "loop", "straight",
                                  \* "curved", "force", "made", "returned",
                                  \* "done", or "panic" after a failed unwrap
  outPoints,                      \* get_spline: the returned points
  section_start,                  \* get_spline: the returned offsets
  f64Length, f64Speed, f64Start,  \* a Straight with a fixed speed: its length,
                                  \* its speed and its start point, as f64
  f64P, f64Pos,                   \* its locals p and pos
  f64Count, f64Last, f64Prev,     \* the number of points pushed, the last one
                                  \* and the one before it
  f64pc,                          \* "loop" or "done"
  fcPoints, fcDistance,           \* one call of TrackSpline::forces: the
                                  \* points of self and the argument pos
  fcPair, fcOut,                  \* what eval_closest and forces returned
  fcpc                            \* "call" or "done"

curveVars == <<curve, tIn, out, evaluated>>

angleVars == <<angA, angB, diff, diffDone>>

transVars == <<sched, time, lin, fast, fastOut, tpc>>

trackVars == <<track, splines, forces, loc, spline, mpc, outPoints, section_start>>

straightVars ==
  <<f64Length, f64Speed, f64Start, f64P, f64Pos, f64Count, f64Last, f64Prev, f64pc>>

forcesVars == <<fcPoints, fcDistance, fcPair, fcOut, fcpc>>

vars == <<curveVars, angleVars, transVars, trackVars, straightVars, forcesVars>>

CurveIdle == curve = "Linear" /\ tIn = 0 /\ out = 0 /\ evaluated = FALSE

AngleIdle == angA = 0 /\ angB = 0 /\ diff = 0 /\ diffDone = FALSE

EmptySchedule == [vert |-> <<>>, lat |-> <<>>, roll |-> <<>>]

TransIdle ==
  /\ sched = EmptySchedule
  /\ time = 0
  /\ lin = NoForces
  /\ fast = FastNew(EmptySchedule)
  /\ fastOut = NoForces
  /\ tpc = "idle"

IdleLoc ==
  [section |-> Straight(0, NoneF), start |-> DefaultPoint,
   start_forces |-> BaselineForces, pos |-> VecZero, velocity |-> 0,
   rot |-> QuatIdentity, p |-> 0]

TrackIdle ==
  /\ track = [sections |-> <<>>, config |-> TrackConfig(0, 0, 0), anchor |-> DefaultPoint]
  /\ splines = <<>>
  /\ forces = BaselineForces
  /\ loc = IdleLoc
  /\ spline = <<>>
  /\ mpc = "idle"
  /\ outPoints = <<>>
  /\ section_start = <<>>

NoPointF64 ==
  [pos |-> <<BigZero, BigZero, BigZero>>, rot |-> QuatIdentity, velocity |-> 0,
   time |-> BigZero]

StraightIdle ==
  /\ f64Length = [length |-> BigZero, nominal |-> 0]
  /\ f64Speed = 1
  /\ f64Start = NoPointF64
  /\ f64P = BigZero
  /\ f64Pos = <<BigZero, BigZero, BigZero>>
  /\ f64Count = 0
  /\ f64Last = NoPointF64
  /\ f64Prev = NoPointF64
  /\ f64pc = "idle"

NoPair == [kind |-> "None", last |-> 0, cur |-> 0]

ForcesIdle ==
  /\ fcPoints = <<>>
  /\ fcDistance = 0
  /\ fcPair = NoPair
  /\ fcOut = NoForces
  /\ fcpc = "idle"

(***************************************************************************)
(* SpecCurve: TransitionCurve::eval applied to one (curve, t).             *)
(***************************************************************************)
\* Inputs are k / CurveGrid for k in -CurveGrid .. 2 * CurveGrid.
CurveGrid == 10

CurveInputs == {(k * Scale) \div CurveGrid : k \in (-CurveGrid)..(2 * CurveGrid)}

InitCurve ==
  /\ curve \in Curves
  /\ tIn \in CurveInputs
  /\ out = 0
  /\ evaluated = FALSE
  /\ AngleIdle
  /\ TransIdle
  /\ TrackIdle
  /\ StraightIdle
  /\ ForcesIdle

EvalCall ==
  /\ ~evaluated
  /\ out' = Eval(curve, tIn)
  /\ evaluated' = TRUE
  /\ UNCHANGED <<curve, tIn, angleVars, transVars, trackVars, straightVars, forcesVars>>

NextCurve == EvalCall

SpecCurve == InitCurve /\ [][NextCurve]_vars

\* C2 (as stated): every shape is 0 at t = 0, and 1 at t = 1 except
\* QuarticBump, which is 0 at t = 1.
C2_Original ==
  evaluated =>
    /\ (tIn = 0 => out = 0)
    /\ (tIn = Scale => out = IF curve = "QuarticBump" THEN 0 ELSE Scale)

\* C2 (amended): every shape is 0 at t = 0; Linear, Quadratic and Cubic are
\* 1 at t = 1; Plateau and QuarticBump are both 0 at t = 1.
C2_Endpoints ==
  evaluated =>
    /\ (tIn = 0 => out = 0)
    /\ (tIn = Scale =>
          out = IF curve \in {"Plateau", "QuarticBump"} THEN 0 ELSE Scale)

\* Plateau has been evaluated at t = 1 and returned 0.
C2_Witness == evaluated /\ curve = "Plateau" /\ tIn = Scale /\ out = 0

(***************************************************************************)
(* SpecAngle: deg_diff applied to one pair of angles.                      *)
(***************************************************************************)
\* Angles are multiples of 45 degrees up to MaxEighths eighth-turns either
\* way, each also one unit below and one unit above.
MaxEighths == 8

AngleInputs ==
  {k * 45 * Scale + e : k \in (-MaxEighths)..MaxEighths, e \in {-1, 0, 1}}

InitAngle ==
  /\ angA \in AngleInputs
  /\ angB \in AngleInputs
  /\ diff = 0
  /\ diffDone = FALSE
  /\ CurveIdle
  /\ TransIdle
  /\ TrackIdle
  /\ StraightIdle
  /\ ForcesIdle

DegDiffCall ==
  /\ ~diffDone
  /\ diff' = DegDiff(angA, angB)
  /\ diffDone' = TRUE
  /\ UNCHANGED <<angA, angB, curveVars, transVars, trackVars, straightVars, forcesVars>>

NextAngle == DegDiffCall

SpecAngle == InitAngle /\ [][NextAngle]_vars

Transition(c, v, l, ce, te) ==
  [curve |-> c, value |-> v, length |-> l, center |-> ce, tension |-> te]

\* One transition per curve, with every time-warp branch among them, and
\* durations of one and two seconds.
SegPool ==
  { Transition("Linear", 3 * Scale, 2 * Scale, 0, 0),
    Transition("Linear", Scale, Scale, 0, 0),
    Transition("Quadratic", -Scale, Scale, 2 * Scale, 0),
    Transition("Cubic", 2 * Scale, Scale, -2 * Scale, 0),
    Transition("Plateau", Scale, 2 * Scale, 0, Scale),
    Transition("QuarticBump", 2 * Scale, Scale, 0, -Scale) }

\* A channel holds at most MaxSegs transitions.
MaxSegs == 2

SeqsUpTo(S, n) == UNION {[1..k -> S] : k \in 0..n}

VertChannels == SeqsUpTo(SegPool, MaxSegs)

LatChannels ==
  { <<>>,
    <<Transition("Linear", Scale, Scale, 0, 0)>>,
    <<Transition("Quadratic", -Scale, Scale, 2 * Scale, 0),
      Transition("Plateau", Scale, 2 * Scale, 0, Scale)>> }

RollChannels ==
  { <<>>,
    <<Transition("Cubic", 2 * Scale, Scale, -2 * Scale, 0),
      Transition("Linear", 3 * Scale, 2 * Scale, 0, 0)>>,
    <<Transition("QuarticBump", 2 * Scale, Scale, 0, -Scale),
      Transition("Linear", Scale, Scale, 0, 0),
      Transition("Linear", Scale, Scale, 0, 0)>> }

\* Times run in half seconds from -0.5 to past the longest channel.
Times == {k * Half : k \in (-1)..(4 * MaxSegs + 2)}

InitTransitions ==
  /\ sched \in [vert : VertChannels, lat : LatChannels, roll : RollChannels]
  /\ time \in Times
  /\ lin = NoForces
  /\ fast = FastNew(EmptySchedule)
  /\ fastOut = NoForces
  /\ tpc = "start"
  /\ CurveIdle
  /\ AngleIdle
  /\ TrackIdle
  /\ StraightIdle
  /\ ForcesIdle

LinearEvaluate ==
  /\ tpc = "start"
  /\ lin' = Evaluate(sched, time)
  /\ tpc' = "linear"
  /\ UNCHANGED <<sched, time, fast, fastOut, curveVars, angleVars, trackVars, straightVars, forcesVars>>

FastBuild ==
  /\ tpc = "linear"
  /\ fast' = FastNew(sched)
  /\ tpc' = "built"
  /\ UNCHANGED <<sched, time, lin, fastOut, curveVars, angleVars, trackVars, straightVars, forcesVars>>

FastEvaluateCall ==
  /\ tpc = "built"
  /\ fastOut' = FastEvaluate(fast, time)
  /\ tpc' = "done"
  /\ UNCHANGED <<sched, time, lin, fast, curveVars, angleVars, trackVars, straightVars, forcesVars>>

NextTransitions == LinearEvaluate \/ FastBuild \/ FastEvaluateCall

SpecTransitions == InitTransitions /\ [][NextTransitions]_vars

\* C1: for a schedule with at least one transition per channel and a time
\* 0 <= t < length(), the fast evaluator returns the Forces the linear
\* evaluator returns.
C1_FastEqualsLinear ==
  (/\ tpc = "done"
   /\ Len(sched.vert) >= 1 /\ Len(sched.lat) >= 1 /\ Len(sched.roll) >= 1
   /\ 0 <= time /\ time < Length(sched))
  => fastOut = lin

\* The 0-based index of the rightmost segment of arr whose start <= t.
C12_Rightmost(arr, t) ==
  CHOOSE i \in 0..(Len(arr) - 1) :
    /\ arr[i + 1].start <= t
    /\ \A j \in 0..(Len(arr) - 1) : arr[j + 1].start <= t => j <= i

\* The starts of arr begin at 0 and increase strictly.
C12_Increasing(arr) ==
  /\ arr # <<>>
  /\ arr[1].start = 0
  /\ \A i \in 1..(Len(arr) - 1) : arr[i].start < arr[i + 1].start

\* C12 (as stated): for a non-empty list of absolute segments whose starts
\* increase strictly from 0 and a time t >= 0, find_range_index returns the
\* index of the rightmost segment whose start <= t, an index in 0..len-1.
C12_RightmostSegment ==
  (tpc \in {"built", "done"} /\ time >= 0) =>
    \A arr \in {fast.vert, fast.lat, fast.roll} :
      C12_Increasing(arr) =>
        /\ FindRangeIndex(arr, time) \in 0..(Len(arr) - 1)
        /\ FindRangeIndex(arr, time) = C12_Rightmost(arr, time)

\* The sum of eval(1) * value over the first n transitions of ts.
RECURSIVE C5_TerminalSum(_, _)
C5_TerminalSum(ts, n) ==
  IF n = 0 THEN 0
  ELSE C5_TerminalSum(ts, n - 1) + FMul(Eval(ts[n].curve, Scale), ts[n].value)

C5_Start(ts, i) == SumLengths(SubSeq(ts, 1, i - 1))

C5_Containing(ts, t) ==
  {i \in 1..Len(ts) : C5_Start(ts, i) <= t /\ t <= C5_Start(ts, i) + ts[i].length}

C5_Expected(ts, t) ==
  IF C5_Containing(ts, t) = {} THEN C5_TerminalSum(ts, Len(ts))
  ELSE LET k == CHOOSE i \in C5_Containing(ts, t) :
                  \A j \in C5_Containing(ts, t) : i <= j
       IN  C5_TerminalSum(ts, k - 1)
           + FMul(EvalTimewarp(ts[k].curve,
                               FDiv(t - C5_Start(ts, k), ts[k].length),
                               ts[k].center, ts[k].tension),
                  ts[k].value)

C5_Example ==
  [vert |-> <<Transition("Linear", 3 * Scale, 2 * Scale, 0, 0)>>,
   lat |-> <<>>, roll |-> <<>>]

\* C5: for t >= 0 each channel of the linear evaluator's result is the sum
\* of eval(1) * value over the transitions before the first one whose closed
\* interval contains t, plus eval_timewarp((t - accum) / length) * value of
\* that one, and nothing of those after it; the single vertical transition
\* {Linear, 3, 2, 0, 0} at t = 1 gives vert 1.5, lat 0, roll 0.
C5_LinearEvaluator ==
  (tpc \in {"linear", "built", "done"} /\ time >= 0)
  => /\ lin.kind = "Some"
     /\ lin.vert = C5_Expected(sched.vert, time)
     /\ lin.lat = C5_Expected(sched.lat, time)
     /\ lin.roll = C5_Expected(sched.roll, time)
     /\ (sched = C5_Example /\ time = Scale
          => lin = SomeForces(3 * Half, 0, 0))

\* The linear evaluator has answered for a time strictly inside the first
\* of two vertical transitions, the second of which has a non-zero value.
C5_Witness ==
  /\ tpc = "linear"
  /\ Len(sched.vert) = 2
  /\ 0 < time /\ time < sched.vert[1].length
  /\ Eval(sched.vert[2].curve, Scale) # 0
  /\ lin.kind = "Some"
  /\ lin.vert # 0

C6_Totals(tr) == {SumLengths(tr.vert), SumLengths(tr.lat), SumLengths(tr.roll)}

C6_MinTotal(tr) == CHOOSE m \in C6_Totals(tr) : \A x \in C6_Totals(tr) : m <= x

LastOr(points, point) == IF points = <<>> THEN point ELSE points[Len(points)]

\* Straight and Curved: the speed for this step, fixed or from friction.
StepSpeed(config, fs, points, point, dt) ==
  IF fs.kind = "Some" THEN fs.v
  ELSE TrackFriction(config.parameter, config.resistance, config.heartline_height,
                     LastOr(points, point), point, dt)

\* Straight and Curved: what an iteration leaves behind.  It stalls when
\* the speed came from friction and is <= 0; otherwise the point is pushed.
StepResult(l, pos, rot, velocity, dp) ==
  [stall |-> l.section.fixed_speed.kind = "None" /\ XLe(velocity, 0),
   pos |-> pos, rot |-> rot, velocity |-> velocity, p |-> XAdd(l.p, dp),
   point |-> TrackPoint(pos, rot, velocity,
                        XAdd(XDiv(l.p, velocity), l.start.time))]

\* Straight: dp
StraightDp == Scale \div 100

\* Straight: the iteration once pos has been advanced
StraightAt(config, l, points, pos) ==
  StepResult(l, pos, l.start.rot,
             StepSpeed(config, l.section.fixed_speed, points,
                       TrackPoint(pos, l.start.rot, l.velocity,
                                  XAdd(XDiv(l.p, l.velocity), l.start.time)),
                       XDiv(StraightDp, l.velocity)),
             StraightDp)

\* One iteration of the Straight while loop, from locals l and the points
\* emitted so far.
StraightIter(config, l, points) ==
  StraightAt(config, l, points,
             VAdd(QRot(l.start.rot, VScale(VecZ, StraightDp)), l.pos))

\* Curved: angle.to_radians() * radius, the arc length
CurvedArc(section) == XMul(ToRadians(section.angle), section.radius)

\* Curved: dp
CurvedDp(section) == XDiv(CurvedArc(section), 200 * Scale)

\* Curved: axis
CurvedAxis(section) ==
  QRot(FromAxisAngle(VecZ, ToRadians(section.direction)), VecNegX)

\* Curved: rot after the step
CurvedRot(l) ==
  QMul(l.rot, FromAxisAngle(CurvedAxis(l.section),
                            XMul(XDiv(Scale, l.section.radius), CurvedDp(l.section))))

\* Curved: the iteration once pos has been advanced
CurvedAt(config, l, points, pos) ==
  StepResult(l, pos, CurvedRot(l),
             StepSpeed(config, l.section.fixed_speed, points,
                       TrackPoint(pos, l.start.rot, l.velocity,
                                  XAdd(XDiv(l.p, l.velocity), l.start.time)),
                       XDiv(CurvedDp(l.section), l.velocity)),
             CurvedDp(l.section))

\* One iteration of the Curved while loop.
CurvedIter(config, l, points) ==
  CurvedAt(config, l, points,
           VAdd(l.pos, QRot(l.rot, VScale(VecZ, CurvedDp(l.section)))))

\* Force: next_rot after the roll rate has been applied
ForceRoll(rot, f) ==
  IF XGt(XAbs(f.roll), Scale \div 100)
  THEN QMul(FromAxisAngle(QRot(rot, VecZ), XMul(ToRadians(f.roll), DT)), rot)
  ELSE rot

\* Force: force_vec
ForceVecOf(up, right, f) ==
  VAdd(VAdd(VScale(up, XNeg(f.vert)), VScale(right, XNeg(f.lat))), VecY)

\* Force: normal_force and lateral_force, -force_vec.dot(axis) * G
AxisForce(force_vec, axis) == XMul(XNeg(VDot(force_vec, axis)), G)

\* Force: next_rot turned about its right and up axes
ForceTurn(rolled, up, right, force_vec, velocity) ==
  QMul(QMul(FromAxisAngle(right,
                          XMul(XDiv(AxisForce(force_vec, up), velocity), DT)),
            FromAxisAngle(up,
                          XMul(XNeg(XDiv(AxisForce(force_vec, right), velocity)), DT))),
       rolled)

\* Force: next_rot from the rolled orientation and its axes
ForceTurnAxes(rolled, up, right, f, velocity) ==
  ForceTurn(rolled, up, right, ForceVecOf(up, right, f), velocity)

\* Force: next_rot from the rolled orientation
ForceTurnRolled(rolled, f, velocity) ==
  ForceTurnAxes(rolled, QRot(rolled, VecY), QRot(rolled, VecNegX), f, velocity)

\* Force: the orientation after one DT under forces f
ForceNextRot(rot, f, velocity) == ForceTurnRolled(ForceRoll(rot, f), f, velocity)

\* Force: the speed for this step, kept or from friction
ForceSpeed(config, l, points, track_point) ==
  IF l.section.fixed_speed.kind = "None"
  THEN TrackFriction(config.parameter, config.resistance, config.heartline_height,
                     LastOr(points, track_point), track_point, DT)
  ELSE l.velocity

\* Force: an iteration whose point carries the loop's time alone.
ForceResultLocalTime(l, pos, rot, velocity) ==
  [stall |-> XLe(velocity, 0),
   pos |-> pos, rot |-> rot, velocity |-> velocity, p |-> XAdd(l.p, DT),
   point |-> TrackPoint(pos, rot, velocity, l.p)]

\* Force: what an iteration leaves behind; l.p is the loop's time
ForceResult(l, pos, rot, velocity) ==
  [stall |-> XLe(velocity, 0),
   pos |-> pos, rot |-> rot, velocity |-> velocity, p |-> XAdd(l.p, DT),
   point |-> TrackPoint(pos, rot, velocity, XAdd(l.p, l.start.time))]

\* Force: the iteration once rot and pos have been advanced
ForceAt(config, l, points, rot, pos) ==
  ForceResult(l, pos, rot,
              ForceSpeed(config, l, points,
                         TrackPoint(pos, rot, l.velocity, XAdd(l.p, l.start.time))))

\* Force: the iteration once rot has been advanced
ForceMove(config, l, points, rot) ==
  ForceAt(config, l, points, rot,
          VAdd(l.pos, VScale(QRot(rot, VecZ), XMul(l.velocity, DT))))

\* One iteration of the Force while loop once transitions.evaluate(time)
\* has given ev.
ForceIter(config, l, points, ev) ==
  ForceMove(config, l, points,
            ForceNextRot(l.rot,
                         ForcesOf(XAdd(ev.vert, l.start_forces.vert),
                                  XAdd(ev.lat, l.start_forces.lat),
                                  XAdd(ev.roll, l.start_forces.roll)),
                         l.velocity))

\* Short force schedules, durations of a few DT: one that pulls up and
\* sideways, one that rolls.
PullSchedule ==
  [vert |-> <<Transition("Linear", Scale, 4, 0, 0)>>,
   lat |-> <<Transition("Cubic", Half, 6, 0, 0)>>,
   roll |-> <<Transition("Linear", 0, 5, 0, 0)>>]

RollSchedule ==
  [vert |-> <<Transition("Quadratic", -Half, 2, 0, 0),
              Transition("Plateau", Scale, 3, 0, 0)>>,
   lat |-> <<Transition("Linear", 0, 5, 0, 0)>>,
   roll |-> <<Transition("Linear", 90 * Scale, 7, 0, 0)>>]

\* Sections of every kind, with and without a fixed speed, among them a
\* Straight and a Curved of zero extent.
SectionPool ==
  { Straight(3 * (Scale \div 100), NoneF),
    Straight(0, NoneF),
    Straight(5 * (Scale \div 100), SomeF(5 * Scale)),
    Curved(NoneF, 5 * Scale, 90 * Scale, 45 * Scale),
    Curved(SomeF(10 * Scale), 10 * Scale, 0, 0),
    Force(NoneF, PullSchedule),
    Force(SomeF(8 * Scale), RollSchedule) }

MaxSections == 2

\* Friction settings: none; rolling friction with a heartline; a resistance
\* that takes all the energy in one step.
NoFriction == TrackConfig(0, 0, 0)

RollingFriction == TrackConfig(Scale, Scale \div 10, 11 * (Scale \div 10))

FullResistance == TrackConfig(0, 100 * Scale, 0)

\* Anchors: a slow one, and a fast one with an orientation and a time of
\* its own; the default point has speed 0.
SlowAnchor == TrackPoint(VecZero, QuatIdentity, Scale \div 10, 0)

FastAnchor ==
  TrackPoint(<<0, 5 * Scale, 0>>, [x |-> 0, y |-> 707, z |-> 0, w |-> 707],
             8 * Scale, 2 * Scale)

Setups ==
  { [config |-> NoFriction, anchor |-> DefaultPoint],
    [config |-> RollingFriction, anchor |-> SlowAnchor],
    [config |-> NoFriction, anchor |-> FastAnchor],
    [config |-> RollingFriction, anchor |-> FastAnchor],
    [config |-> FullResistance, anchor |-> FastAnchor] }

Init ==
  /\ \E sections \in SeqsUpTo(SectionPool, MaxSections), setup \in Setups :
       track = [sections |-> sections, config |-> setup.config,
                anchor |-> setup.anchor]
  /\ splines = <<>>
  /\ forces = BaselineForces
  /\ loc = IdleLoc
  /\ spline = <<>>
  /\ mpc = "loop"
  /\ outPoints = <<>>
  /\ section_start = <<>>
  /\ CurveIdle
  /\ AngleIdle
  /\ TransIdle
  /\ StraightIdle
  /\ ForcesIdle

\* make_splines: the call of make_spline for the next section.
MakeSplineCall ==
  /\ mpc = "loop"
  /\ Len(splines) < Len(track.sections)
  /\ \E section \in {track.sections[Len(splines) + 1]},
        st \in {NextStart(splines, InitialPoint(track.anchor))} :
       IF st.kind = "None"
       THEN mpc' = "panic" /\ UNCHANGED <<loc, spline>>
       ELSE /\ loc' = [section |-> section, start |-> st.v,
                       start_forces |-> forces, pos |-> st.v.pos,
                       velocity |-> IF section.type = "force"
                                      /\ section.fixed_speed.kind = "Some"
                                    THEN section.fixed_speed.v
                                    ELSE st.v.velocity,
                       rot |-> st.v.rot, p |-> 0]
            /\ spline' = <<>>
            /\ mpc' = section.type
  /\ UNCHANGED <<track, splines, forces, outPoints, section_start>>
  /\ UNCHANGED <<curveVars, angleVars, transVars, straightVars, forcesVars>>

\* An iteration it of an integrator's loop takes effect: a stall returns the
\* spline as it is, otherwise the point is pushed and the loop goes on.
Iterate(it) ==
  IF it.stall
  THEN mpc' = "made" /\ UNCHANGED <<loc, spline>>
  ELSE /\ spline' = Append(spline, it.point)
       /\ loc' = [loc EXCEPT !.pos = it.pos, !.rot = it.rot,
                             !.velocity = it.velocity, !.p = it.p]
       /\ mpc' = mpc

StraightStep ==
  /\ mpc = "straight"
  /\ IF XLt(loc.p, loc.section.length)
     THEN \E it \in {StraightIter(track.config, loc, spline)} : Iterate(it)
     ELSE mpc' = "made" /\ UNCHANGED <<loc, spline>>
  /\ UNCHANGED <<track, splines, forces, outPoints, section_start>>
  /\ UNCHANGED <<curveVars, angleVars, transVars, straightVars, forcesVars>>

CurvedStep ==
  /\ mpc = "curved"
  /\ IF XLt(loc.p, CurvedArc(loc.section))
     THEN \E it \in {CurvedIter(track.config, loc, spline)} : Iterate(it)
     ELSE mpc' = "made" /\ UNCHANGED <<loc, spline>>
  /\ UNCHANGED <<track, splines, forces, outPoints, section_start>>
  /\ UNCHANGED <<curveVars, angleVars, transVars, straightVars, forcesVars>>

ForceStep ==
  /\ mpc = "force"
  /\ \E ev \in {Evaluate(loc.section.transitions, loc.p)} :
       IF XLt(loc.p, Length(loc.section.transitions)) /\ ev.kind = "Some"
       THEN \E it \in {ForceIter(track.config, loc, spline, ev)} : Iterate(it)
       ELSE mpc' = "made" /\ UNCHANGED <<loc, spline>>
  /\ UNCHANGED <<track, splines, forces, outPoints, section_start>>
  /\ UNCHANGED <<curveVars, angleVars, transVars, straightVars, forcesVars>>

\* make_splines: the spline is pushed and the baseline forces are read from
\* its end; unwrap() panics when forces() has no result.
PushSpline ==
  /\ mpc = "made"
  /\ splines' = Append(splines, spline)
  /\ \E f \in {SplineForces(spline, XSub(TotalDistance(spline), Scale \div 200))} :
       IF f.kind = "None"
       THEN mpc' = "panic" /\ UNCHANGED forces
       ELSE mpc' = "loop" /\ forces' = ForcesOf(f.vert, f.lat, f.roll)
  /\ UNCHANGED <<track, loc, spline, outPoints, section_start>>
  /\ UNCHANGED <<curveVars, angleVars, transVars, straightVars, forcesVars>>

\* make_splines returns to get_spline.
MakeSplinesReturn ==
  /\ mpc = "loop"
  /\ Len(splines) = Len(track.sections)
  /\ mpc' = "returned"
  /\ UNCHANGED <<track, splines, forces, loc, spline, outPoints, section_start>>
  /\ UNCHANGED <<curveVars, angleVars, transVars, straightVars, forcesVars>>

\* get_spline: the offsets and the decimated points.
GetSplineReturn ==
  /\ mpc = "returned"
  /\ section_start' = SectionStart(splines)
  /\ outPoints' = Decimate(splines)
  /\ mpc' = "done"
  /\ UNCHANGED <<track, splines, forces, loc, spline>>
  /\ UNCHANGED <<curveVars, angleVars, transVars, straightVars, forcesVars>>

Next ==
  \/ MakeSplineCall
  \/ StraightStep
  \/ CurvedStep
  \/ ForceStep
  \/ PushSpline
  \/ MakeSplinesReturn
  \/ GetSplineReturn

Spec == Init /\ [][Next]_vars

\* C4 (as stated): make_splines never aborts on a missing forces() result or
\* on a segment with fewer than two points; it always completes with one
\* spline per segment.
C4_NeverFatal == mpc # "panic"

\* C7 (as stated): in a segment with no fixed speed, every point of the
\* spline, while it is filled and when it is returned, has speed > 0.
C7_PositiveSpeeds ==
  (mpc \in {"straight", "curved", "force", "made"}
   /\ loc.section.fixed_speed.kind = "None")
  => \A k \in 1..Len(spline) : XGt(spline[k].velocity, 0)

\* C8: while section i is integrated, it is the i-th of the list; the first
\* starts from the anchor with identity orientation and time 0 and from
\* forces {1, 0, 0}; a later one starts from the last point of spline i-1
\* and, as seen when its integration begins, from
\* forces(total_distance - 0.005) of spline i-1.
C8_Chaining ==
  mpc \in {"straight", "curved", "force", "made"} =>
    /\ Len(splines) < Len(track.sections)
    /\ loc.section = track.sections[Len(splines) + 1]
    /\ loc.start_forces = forces
    /\ IF splines = <<>>
       THEN /\ loc.start = [pos |-> track.anchor.pos, rot |-> QuatIdentity,
                            velocity |-> track.anchor.velocity, time |-> 0]
            /\ loc.start_forces = [vert |-> Scale, lat |-> 0, roll |-> 0]
       ELSE \E prev \in {splines[Len(splines)]} :
              /\ prev # <<>>
              /\ loc.start = prev[Len(prev)]
              /\ (spline = <<>> /\ loc.p = 0) =>
                   \E f \in {SplineForces(prev, XSub(TotalDistance(prev), 5))} :
                     /\ f.kind = "Some"
                     /\ loc.start_forces =
                          [vert |-> f.vert, lat |-> f.lat, roll |-> f.roll]

\* C8 witness: a second section is being integrated, from a start point that
\* is not the initial point and from forces that are not {1, 0, 0}.
C8_Witness ==
  /\ mpc \in {"straight", "curved", "force"}
  /\ Len(splines) = 1
  /\ spline # <<>>
  /\ track.anchor.rot # QuatIdentity
  /\ loc.start # InitialPoint(track.anchor)
  /\ loc.start_forces # BaselineForces

\* The points of all the splines in order.
RECURSIVE C9_Concat(_)
C9_Concat(ss) == IF ss = <<>> THEN <<>> ELSE ss[1] \o C9_Concat(Tail(ss))

\* The polyline lengths of the first n splines, summed.
RECURSIVE C9_OffsetSum(_, _)
C9_OffsetSum(ss, n) ==
  IF n = 0 THEN 0 ELSE XAdd(C9_OffsetSum(ss, n - 1), TotalDistance(ss[n]))

\* C9: get_spline returns the points 0, 4, 8, ... of the concatenation of
\* all splines, and one offset per section: the summed polyline lengths of
\* the splines before it, so the first is 0 and they never decrease.
C9_GetSpline ==
  mpc = "done" =>
    \E cat \in {C9_Concat(splines)} :
      /\ Len(outPoints) = (Len(cat) + 3) \div 4
      /\ \A k \in 1..Len(outPoints) : outPoints[k] = cat[4 * (k - 1) + 1]
      /\ Len(splines) = Len(track.sections)
      /\ Len(section_start) = Len(splines)
      /\ \A i \in 1..Len(section_start) :
           section_start[i] = C9_OffsetSum(splines, i - 1)
      /\ Len(section_start) >= 1 => section_start[1] = 0
      /\ \A i \in 1..(Len(section_start) - 1) :
           XLe(section_start[i], section_start[i + 1])

\* C9 witness: get_spline has returned for two splines, the first with a
\* number of points that is no multiple of 4, the second not empty.
C9_Witness ==
  /\ mpc = "done"
  /\ Len(splines) = 2
  /\ Len(splines[1]) % 4 # 0
  /\ Len(splines[2]) > 4
  /\ section_start[2] > 0
  /\ Len(outPoints) >= 2

\* Every section of the track has a fixed speed above 0.
C14_FixedPositive ==
  \A i \in 1..Len(track.sections) :
    /\ track.sections[i].fixed_speed.kind = "Some"
    /\ XGt(track.sections[i].fixed_speed.v, 0)

\* The length of the first step of the section being integrated.
C14_Step ==
  IF loc.section.type = "straight" THEN StraightDp
  ELSE IF loc.section.type = "curved" THEN CurvedDp(loc.section)
  ELSE XMul(IF loc.section.fixed_speed.kind = "Some"
            THEN loc.section.fixed_speed.v ELSE loc.start.velocity, DT)

\* The first point of the spline being filled has the time of the start
\* point and, where the step is not below the resolution of the positions,
\* a position that is not the start point's.
C14_FirstPoint ==
  (mpc \in {"straight", "curved", "force", "made"} /\ spline # <<>>) =>
    /\ spline[1].time = loc.start.time
    /\ spline[1].time # NaN
    /\ C14_Step # 0 => spline[1].pos # loc.start.pos

\* In a track of sections with fixed positive speeds: a spline starts at
\* the time the one before it ends, and time never decreases along the
\* concatenation of the splines.
C14_Boundaries ==
  (mpc \in {"returned", "done"} /\ C14_FixedPositive) =>
    /\ \A i \in 2..Len(splines) :
         splines[i][1].time = splines[i - 1][Len(splines[i - 1])].time
    /\ \A k \in 2..Len(C9_Concat(splines)) :
         XLe(C9_Concat(splines)[k - 1].time, C9_Concat(splines)[k].time)

\* C14 (as stated): in every kind of section the first point has the time
\* of the start point and a position one step past it; in a track of
\* sections with fixed positive speeds the first point of a spline has the
\* time of the last point of the spline before, and time is non-decreasing
\* along the concatenation, not strictly increasing at the boundaries.
C14_SegmentStartTimes == C14_FirstPoint /\ C14_Boundaries

(***************************************************************************)
(* SpecStraight: make_spline on one Straight section with a fixed speed,   *)
(* in exact f64 arithmetic.  The start orientation is the identity, so the *)
(* step start.rot * (Z * dp) is (0, 0, dp).  Every iteration of the while  *)
(* loop is one step; of the spline, the number of points and the last two  *)
(* points are kept.                                                        *)
(***************************************************************************)
\* Straight: dp = 0.01
DpF64 == F64Ratio(1, 100)

\* Straight with pos left where it was.
AdvanceNot(pos, dp) == pos

\* Straight: pos = start.rot * (Z * dp) + pos, for the identity start.rot
Advance(pos, dp) ==
  <<F64Add(BigZero, pos[1]), F64Add(BigZero, pos[2]), F64Add(dp, pos[3])>>

\* Straight: the point pushed when the loop is at p and pos has advanced.
PushedPoint(pos, velocity, p, start) ==
  [pos |-> pos, rot |-> start.rot, velocity |-> velocity,
   time |-> F64Add(F64Div(p, velocity), start.time)]

\* Lengths, each with the number of whole 0.01 steps below it: 0.05, 0.1, 1
\* and 10.
StraightLengths ==
  { [length |-> F64Ratio(5, 100), nominal |-> 5],
    [length |-> F64Ratio(1, 10), nominal |-> 10],
    [length |-> BigOfInt(1), nominal |-> 100],
    [length |-> BigOfInt(10), nominal |-> 1000] }

FixedSpeeds == {1, 3, 5}

\* Start points: the origin at time 0, and (1, 2, 1) at time 2.
StraightStarts ==
  { [pos |-> <<BigZero, BigZero, BigZero>>, rot |-> QuatIdentity, velocity |-> 0,
     time |-> BigZero],
    [pos |-> <<BigOfInt(1), BigOfInt(2), BigOfInt(1)>>, rot |-> QuatIdentity,
     velocity |-> 0, time |-> BigOfInt(2)] }

InitStraight ==
  /\ f64Length \in StraightLengths
  /\ f64Speed \in FixedSpeeds
  /\ f64Start \in StraightStarts
  /\ f64P = BigZero
  /\ f64Pos = f64Start.pos
  /\ f64Count = 0
  /\ f64Last = NoPointF64
  /\ f64Prev = NoPointF64
  /\ f64pc = "loop"
  /\ CurveIdle
  /\ AngleIdle
  /\ TransIdle
  /\ TrackIdle
  /\ ForcesIdle

\* One iteration of the while loop: pos advances, the point is pushed and
\* p grows by dp.
StraightLoopStep ==
  /\ f64pc = "loop"
  /\ BLt(f64P, f64Length.length)
  /\ \E pos \in {Advance(f64Pos, DpF64)} :
       /\ f64Pos' = pos
       /\ f64Last' = PushedPoint(pos, f64Speed, f64P, f64Start)
  /\ f64Prev' = f64Last
  /\ f64Count' = f64Count + 1
  /\ f64P' = F64Add(f64P, DpF64)
  /\ UNCHANGED <<f64Length, f64Speed, f64Start, f64pc>>
  /\ UNCHANGED <<curveVars, angleVars, transVars, trackVars, forcesVars>>

\* The loop condition fails and the spline is returned.
StraightLoopExit ==
  /\ f64pc = "loop"
  /\ ~BLt(f64P, f64Length.length)
  /\ f64pc' = "done"
  /\ UNCHANGED <<f64Length, f64Speed, f64Start, f64P, f64Pos, f64Count, f64Last, f64Prev>>
  /\ UNCHANGED <<curveVars, angleVars, transVars, trackVars, forcesVars>>

NextStraight == StraightLoopStep \/ StraightLoopExit

SpecStraight == InitStraight /\ [][NextStraight]_vars

\* The exact k / 100, rounded down to a unit.
C10_Hundredths(k) ==
  BAdd(BigOfInt(k \div 100), BDivSmall(BigOfInt(k % 100), 100).q)

\* 2^-40: what the f64 sums may have drifted from the exact ones.
C10_Tolerance == <<0, 1, 0>>

\* a and b differ by at most the tolerance.
C10_Near(a, b) ==
  /\ BLe(a, BAdd(b, C10_Tolerance))
  /\ BLe(b, BAdd(a, C10_Tolerance))

\* The scenario: start at the origin, L = 10, v = 5, spline returned.
C10_Scenario ==
  /\ f64pc = "done"
  /\ f64Length.length = BigOfInt(10)
  /\ f64Speed = 5
  /\ f64Start.pos = <<BigZero, BigZero, BigZero>>

\* What C10 says of the points: the k-th point has speed v and the start
\* orientation, lies k * 0.01 ahead of the start along z, and is later than
\* the one before it; a point is pushed as long as p < L.
C10_Points ==
  /\ f64Count >= 1 =>
       /\ f64Last.velocity = f64Speed
       /\ f64Last.rot = f64Start.rot
       /\ f64Last.pos[1] = f64Start.pos[1]
       /\ f64Last.pos[2] = f64Start.pos[2]
       /\ BLt(f64Start.pos[3], f64Last.pos[3])
       /\ C10_Near(f64Last.pos[3], BAdd(f64Start.pos[3], C10_Hundredths(f64Count)))
  /\ f64Count >= 2 =>
       /\ BLt(f64Prev.time, f64Last.time)
       /\ BLt(f64Prev.pos[3], f64Last.pos[3])
  /\ C10_Near(f64P, C10_Hundredths(f64Count))
  /\ f64pc = "done" =>
       /\ ~BLt(f64P, f64Length.length)
       /\ f64Count \in {f64Length.nominal, f64Length.nominal + 1}

\* C10 (as stated): the points are as above, and in the scenario the final
\* position is (0, 0, 10) and the final speed is 5.
C10_Original ==
  /\ C10_Points
  /\ C10_Scenario =>
       /\ f64Last.pos = <<BigZero, BigZero, BigOfInt(10)>>
       /\ f64Last.velocity = 5

\* C10 (amended): the points are as above, and in the scenario the sum p
\* after 1000 steps is still below 10, so that 1001 points are pushed; the
\* final position is (0, 0, z) with z one step past 10, within rounding of
\* 10.01, and the final speed is 5.
C10_FixedSpeedStraight ==
  /\ C10_Points
  /\ C10_Scenario =>
       /\ f64Count = 1001
       /\ f64Last.pos[1] = BigZero
       /\ f64Last.pos[2] = BigZero
       /\ BLt(BigOfInt(10), f64Last.pos[3])
       /\ C10_Near(f64Last.pos[3], C10_Hundredths(1001))
       /\ f64Last.velocity = 5

\* C10 witness: the scenario has run to its end with 1001 points.
C10_Witness == C10_Scenario /\ f64Count = 1001 /\ f64Last.velocity = 5


(***************************************************************************)
(* SpecForces: one call of TrackSpline::forces on a spline of up to        *)
(* MaxPoints points.                                                       *)
(***************************************************************************)
\* Points on and off the z axis, level and pitched up, and one whose
\* position and speed are NaN.
PointPool ==
  { TrackPoint(VecZero, QuatIdentity, 5 * Scale, 0),
    TrackPoint(VecZ, QuatIdentity, 5 * Scale, Scale \div 5),
    TrackPoint(<<0, Scale, 2 * Scale>>, [x |-> -259, y |-> 0, z |-> 0, w |-> 966],
               8 * Scale, Half),
    TrackPoint(<<NaN, NaN, NaN>>, QuatIdentity, NaN, NaN) }

MaxPoints == 3

\* The distances asked for: NaN, a negative one, 0, the length of the first
\* step, and the total length, 0.005 less (as make_splines asks) and more.
ForcesDistances(points) ==
  { NaN, -5, 0, Scale,
    XSub(TotalDistance(points), 5), TotalDistance(points),
    XAdd(TotalDistance(points), 1) }

InitForces ==
  /\ fcPoints \in SeqsUpTo(PointPool, MaxPoints)
  /\ fcDistance \in ForcesDistances(fcPoints)
  /\ fcPair = NoPair
  /\ fcOut = NoForces
  /\ fcpc = "call"
  /\ CurveIdle
  /\ AngleIdle
  /\ TransIdle
  /\ TrackIdle
  /\ StraightIdle

\* TrackSpline::forces(pos)
ForcesCall ==
  /\ fcpc = "call"
  /\ fcPair' = EvalClosest(fcPoints, fcDistance)
  /\ fcOut' = SplineForces(fcPoints, fcDistance)
  /\ fcpc' = "done"
  /\ UNCHANGED <<fcPoints, fcDistance>>
  /\ UNCHANGED <<curveVars, angleVars, transVars, trackVars, straightVars>>

NextForces == ForcesCall

SpecForces == InitForces /\ [][NextForces]_vars

\* The polyline length from the first point to point i.
C11_Cumulative(points, i) == TotalDistance(SubSeq(points, 1, i))

\* The pair used is the first consecutive pair whose cumulative distance
\* reaches or exceeds the distance, the result is computed from it, and its
\* roll is 0.
C11_FirstPair ==
  fcOut.kind = "Some" =>
    /\ fcPair.kind = "Some"
    /\ fcPair.cur \in 2..Len(fcPoints)
    /\ fcPair.last = fcPair.cur - 1
    /\ XGe(C11_Cumulative(fcPoints, fcPair.cur), fcDistance)
    /\ \A j \in 2..(fcPair.cur - 1) : ~XGe(C11_Cumulative(fcPoints, j), fcDistance)
    /\ fcOut = ForcesBetween(fcPoints[fcPair.last], fcPoints[fcPair.cur])
    /\ fcOut.roll = 0

\* C11 (as stated): forces(distance) returns no result if and only if
\* distance exceeds the total polyline length of the spline; otherwise it
\* uses the first pair whose cumulative distance reaches distance, and the
\* roll of the result is 0.
C11_Original ==
  fcpc = "done" =>
    /\ fcOut.kind = "None" <=> XGt(fcDistance, TotalDistance(fcPoints))
    /\ C11_FirstPair

\* C11 (amended): forces(distance) returns no result if and only if no
\* cumulative distance of the spline reaches distance: always for a spline
\* with fewer than two points, and for a longer one whose total length and
\* distance are not NaN exactly when distance exceeds the total length;
\* otherwise it uses the first pair whose cumulative distance reaches
\* distance, and the roll of the result is 0.
C11_ForcesContract ==
  fcpc = "done" =>
    /\ fcOut.kind = "None" <=>
         ~\E i \in 2..Len(fcPoints) : XGe(C11_Cumulative(fcPoints, i), fcDistance)
    /\ Len(fcPoints) < 2 => fcOut.kind = "None"
    /\ (Len(fcPoints) >= 2 /\ fcDistance # NaN /\ TotalDistance(fcPoints) # NaN)
         => (fcOut.kind = "None" <=> XGt(fcDistance, TotalDistance(fcPoints)))
    /\ C11_FirstPair

\* C11 witness: a result computed from the second pair of three points.
C11_Witness ==
  /\ fcpc = "done"
  /\ Len(fcPoints) = 3
  /\ fcOut.kind = "Some"
  /\ fcPair.last = 2
  /\ fcOut.vert # Scale
  /\ fcOut.roll = 0


(***************************************************************************)
(* SpecForce: make_spline on one Force section with a fixed speed, from    *)
(* its first iteration to its return.                                      *)
(***************************************************************************)
\* Schedules whose shortest channel is the vertical, the lateral or the
\* roll one, with one and two transitions in a channel, and two with an
\* empty channel.
ForceSchedules ==
  { PullSchedule,
    RollSchedule,
    [vert |-> <<Transition("Linear", Scale, 6, 0, 0)>>,
     lat |-> <<Transition("Linear", Half, 2, 0, 0),
               Transition("Cubic", -Half, 5, 0, 0)>>,
     roll |-> <<Transition("Plateau", 45 * Scale, 3, 0, 0)>>],
    [vert |-> <<Transition("Linear", Scale, 4, 0, 0)>>,
     lat |-> <<Transition("Linear", Half, 3, 0, 0)>>,
     roll |-> <<>>],
    [vert |-> <<>>,
     lat |-> <<Transition("Linear", Half, 3, 0, 0)>>,
     roll |-> <<Transition("Linear", 0, 5, 0, 0)>>] }

ForceSpeeds == {2 * Scale, 8 * Scale}

\* The start points: the initial point of a track at the origin, and the
\* last point of an earlier spline.
ForceStarts == {InitialPoint(SlowAnchor), FastAnchor}

\* The baseline forces: those of the first section, and others.
ForceBaselines == {BaselineForces, ForcesOf(3 * Half, Scale \div 5, 0)}

InitForce ==
  /\ \E transitions \in ForceSchedules, v \in ForceSpeeds, start \in ForceStarts,
        start_forces \in ForceBaselines :
       /\ track = [sections |-> <<Force(SomeF(v), transitions)>>,
                   config |-> RollingFriction, anchor |-> start]
       /\ forces = start_forces
       /\ loc = [section |-> Force(SomeF(v), transitions), start |-> start,
                 start_forces |-> start_forces, pos |-> start.pos,
                 velocity |-> v, rot |-> start.rot, p |-> 0]
  /\ splines = <<>>
  /\ spline = <<>>
  /\ mpc = "force"
  /\ outPoints = <<>>
  /\ section_start = <<>>
  /\ CurveIdle
  /\ AngleIdle
  /\ TransIdle
  /\ StraightIdle
  /\ ForcesIdle

NextForce == ForceStep

SpecForce == InitForce /\ [][NextForce]_vars

\* The number of local times 0, DT, 2 * DT, ... strictly below length.
C13_Count(length) == IF length <= 0 THEN 0 ELSE (length + DT - 1) \div DT

\* While and after a Force section with a fixed speed is integrated: the
\* points pushed are those of the local times 0, DT, ... so far, each with
\* the fixed speed and with time start.time plus its local time; the
\* evaluator has a result at the local time of the next iteration, which is
\* in [0, length); at the return there is one point for every local time
\* below the minimum of the three channel sums.
C13_Points ==
  (mpc \in {"force", "made"} /\ loc.section.type = "force"
     /\ loc.section.fixed_speed.kind = "Some") =>
    /\ loc.p = Len(spline) * DT
    /\ Len(spline) <= C13_Count(C6_MinTotal(loc.section.transitions))
    /\ \A k \in 1..Len(spline) :
         /\ spline[k].time = loc.start.time + (k - 1) * DT
         /\ spline[k].velocity = loc.section.fixed_speed.v
    /\ (mpc = "force" /\ loc.p < C6_MinTotal(loc.section.transitions)) =>
         /\ loc.p >= 0
         /\ Evaluate(loc.section.transitions, loc.p).kind = "Some"
    /\ mpc = "made" =>
         /\ Len(spline) = C13_Count(C6_MinTotal(loc.section.transitions))
         /\ (\E ch \in {loc.section.transitions.vert, loc.section.transitions.lat,
                         loc.section.transitions.roll} : ch = <<>>)
              => spline = <<>>

\* Every iteration of the Force loop either returns or pushes one point.
C13_Progress ==
  mpc = "force" => (mpc' = "made" \/ Len(spline') = Len(spline) + 1)

====
